---- MODULE Spec2Model ----
(***************************************************************************)
(* Model of redis-agent-worker: the reliable queue (src/src/queue.rs) as   *)
(* two broker lists, the worker loop and the per-job pipeline              *)
(* (src/src/worker.rs) and the instance lease guard (src/src/instance.rs). *)
(* Every broker command is one atomic step; a worker may crash between any *)
(* two of its steps. A client calling the methods of ReliableQueue         *)
(* directly and the host callbacks of the agent executor                   *)
(* (src/src/agent.rs) are specifications of their own on the same state.   *)
(***************************************************************************)
EXTENDS Integers, Sequences, FiniteSets, TLC

\* ------------------------------------------------------------------ bounds
NumWorkers == 2      \* worker processes running Worker::run
MaxJobs    == 2      \* distinct jobs a producer may enqueue
MaxThreads == 1      \* detached Drop threads of one worker not yet run
MaxEnq     == 3      \* enqueue calls of the queue clients
MaxToolLen == 3      \* tokens in a tool name
MaxPoison  == 1      \* records on the queue that are no Job
MaxStrLen  == 2      \* characters in the prompt of a Job
MaxShortLen == 1     \* characters in each other string of a Job
MaxTree    == 2      \* contents a working tree may have, besides the cloned one
MaxCommits == 3      \* commits on the branch of a clone

Workers == 1..NumWorkers
Jobs    == 1..MaxJobs
None    == 0

VARIABLES
    queue,        \* broker list <queue_name>: head is index 1, tail is Len
    processing,   \* broker list <queue_name>_processing
    enqueued,     \* history: jobs a producer has enqueued
    acked,        \* history: jobs whose record an ack removed from processing
    pc,           \* pc[w]: position of worker w in run / process_next_job / process_job
    job,          \* job[w]: the Job dequeue returned to w (None if none)
    guard,        \* guard[w]: InstanceGuard.instance: "none" (no guard), "some", "taken"
    log,          \* log[w]: history of the steps of w's process_job call
    dropThreads,  \* dropThreads[w]: threads spawned by Drop that have not yet called return
    dirs,         \* job ids whose workspace directory <work_dir>/<job_id> exists
    calls,        \* calls[w]: history of the ack / nack calls of w's current attempt
    retry,        \* history: the job nack re-enqueued last, and the jobs ahead of it
    last,         \* history: the last call of a queue client, its result and the lists before it
    streak,       \* history: pending before the dequeues made since the last other call
    order,        \* history: records in enqueue order and in dequeue order
    allowed_mcp_url,  \* AgentExecutor.allowed_mcp_url: Option<Url>
    sandbox,      \* the running execute: its step, its sandbox and its guest
    requests,     \* history: URLs the host callbacks of this sandbox sent a request to
    reply,        \* history: the last host callback, its arguments and its result
    codec,        \* a Job written to the queue as JSON text and read back
    repo          \* the clone of one job: its commits, index and working tree

\* State of the worker processes.
workerVars == <<enqueued, acked, pc, job, guard, log, dropThreads, dirs, calls,
                retry>>

\* State of a queue client and of the agent executor.
clientVars == <<last, streak, order>>
agentVars == <<allowed_mcp_url, sandbox, requests, reply>>
libVars == <<codec, repo>>
callVars == <<clientVars, agentVars, libVars>>

vars == <<queue, processing, enqueued, acked, pc, job, guard, log,
          dropThreads, dirs, calls, retry, last, streak, order,
          allowed_mcp_url, sandbox, requests, reply, codec, repo>>

\* ------------------------------------------------------- broker list commands
\* A variant of LPush that inserts at the tail.
PushTail(list, x) == Append(list, x)

\* LPUSH: insert at the head.
LPush(list, x) == <<x>> \o list

\* A variant of Tail1 that takes the head.
Head1(list) == list[1]

\* The element RPOP / RPOPLPUSH / BRPOPLPUSH takes: the tail.
Tail1(list) == list[Len(list)]

\* A variant of RPop that leaves the popped element in the list.
KeepAll(list) == list

\* The list after RPOP.
RPop(list) == SubSeq(list, 1, Len(list) - 1)

\* A variant of PeekAt that reads the head (LINDEX 0).
PeekAtHead(list) == list[1]

\* ReliableQueue::peek: LINDEX -1, the tail.
PeekAt(list) == list[Len(list)]

\* Index of the first element equal to x counted from the head, 0 if none.
FirstIndex(list, x) ==
    IF \E i \in 1..Len(list) : list[i] = x
    THEN CHOOSE i \in 1..Len(list) :
            list[i] = x /\ \A k \in 1..(i - 1) : list[k] # x
    ELSE 0

\* LREM list 1 x: number of elements removed (0 or 1).
LRemCount(list, x) == IF FirstIndex(list, x) = 0 THEN 0 ELSE 1

\* A variant of LRem that removes every element equal to x (LREM list 0 x).
LRemAll(list, x) == SelectSeq(list, LAMBDA e : e # x)

\* LREM list 1 x: the list afterwards.
LRem(list, x) ==
    LET i == FirstIndex(list, x)
    IN  IF i = 0 THEN list
        ELSE SubSeq(list, 1, i - 1) \o SubSeq(list, i + 1, Len(list))

Count(list, x) == Cardinality({i \in 1..Len(list) : list[i] = x})
Elems(list)    == {list[i] : i \in 1..Len(list)}

\* ------------------------------------------------------------ serialization
\* serde_json::to_string(job): the record stored in the broker.
Serialize(j) == <<"json", j>>

\* serde_json::from_str(record).
Deserialize(rec) == rec[2]

\* A record that is not the JSON text of a Job ("not a valid json").
Poison == <<"bad", 0>>

\* serde_json::from_str(record) returns Err.
DeserializeFails(rec) == rec[1] # "json"

\* -------------------------------------------------------------------- URLs
\* URL strings: a scheme, a host, a port written or not (0), a path written
\* or not; NoText is the absent Option, Garbage a string Url::parse rejects.
Schemes  == {"http", "https"}
Hosts    == {"mcp", "evil"}
PortsWritten == {0, 80, 443, 8080}
PathsWritten == {"", "/"}
NoText   == [scheme |-> "", host |-> "", port |-> 0, path |-> ""]
Garbage  == [scheme |-> "", host |-> "not a url", port |-> 0, path |-> ""]
UrlTexts == [scheme : Schemes, host : Hosts, port : PortsWritten,
             path : PathsWritten] \cup {Garbage}

\* Tokens a tool name is made of, and the tool names the guest may pass.
NameTokens == {"/", "x", "evil"}
ToolNames  == UNION {[1..n -> NameTokens] : n \in 0..MaxToolLen}

\* The port a scheme implies.
DefaultPort(scheme) ==
    CASE scheme = "http"  -> 80
      [] scheme = "https" -> 443
      [] OTHER            -> 0

\* A variant of ParsePort that keeps a written default port.
ParsePortRaw(scheme, port) == port

\* Url::port(): None (0) when the port is not written or is the scheme's default.
ParsePort(scheme, port) == IF port = DefaultPort(scheme) THEN 0 ELSE port

\* Option<Url>::None.
NoUrl == [scheme |-> "", host |-> "", port |-> 0, path |-> <<>>]

\* Url::parse fails.
ParseFails(text) == text.scheme = ""

\* Url::parse: the port is normalised, an empty path becomes "/".
Parse(text) ==
    [scheme |-> text.scheme, host |-> text.host,
     port |-> ParsePort(text.scheme, text.port), path |-> <<"/">>]

\* What the host callbacks compare and what a request is sent to:
\* scheme(), host_str() and port() of a Url.
Origin(u) == [scheme |-> u.scheme, host |-> u.host, port |-> u.port]

\* Number of "/" tokens a reference starts with.
RECURSIVE LeadingSlashes(_)
LeadingSlashes(ref) ==
    IF ref = <<>> \/ Head(ref) # "/" THEN 0 ELSE 1 + LeadingSlashes(Tail(ref))

\* Url::join(reference): a reference starting with two or more slashes names
\* another host, one starting with a single slash replaces the path, any
\* other one is resolved against the directory of the base path.
JoinFails(base, ref) == LeadingSlashes(ref) >= 2 /\ LeadingSlashes(ref) = Len(ref)

Join(base, ref) ==
    LET n == LeadingSlashes(ref)
    IN  IF n >= 2
        THEN [scheme |-> base.scheme, host |-> ref[n + 1], port |-> 0,
              path |-> <<"/">> \o SubSeq(ref, n + 2, Len(ref))]
        ELSE IF n = 1 THEN [base EXCEPT !.path = ref]
        ELSE [base EXCEPT !.path = SubSeq(@, 1, Len(@) - 1) \o <<"/">> \o ref]

\* A variant of ToolRef that joins the tool name as it is.
ToolRefBare(tool_name) == tool_name

\* format!("/tools/{}", tool_name).
ToolRef(tool_name) == <<"/", "tools", "/">> \o tool_name

\* The host functions register_host_functions registers.
HostFunctions == {"InitializeMCPConnection", "GetMCPTools", "ExecuteMCPTool"}

\* HTTP status codes an endpoint may answer with; 0 stands for no answer.
Statuses == {200, 404, 500}

\* A variant of SetupOrder that creates the sandbox before the allow-list is written.
SetupOrderWriteLate == <<"new", "write", "register", "evolve", "call">>

\* A variant of SetupOrder that evolves the sandbox before the host functions
\* are registered.
SetupOrderEvolveFirst == <<"write", "new", "evolve", "register", "call">>

\* The steps of AgentExecutor::execute, in the order of its statements.
SetupOrder == <<"write", "new", "register", "evolve", "call">>

\* A variant of GuestAfterInit that goes on after an error of the host function.
GuestAfterInitIgnoring(res) == "tools"

\* execute_agent: `call_host_function("InitializeMCPConnection", ..)?`, then
\* the call of GetMCPTools.
GuestAfterInit(res) == IF res = "Ok" THEN "tools" ELSE "err"

\* execute_agent: `call_host_function("GetMCPTools", ..)?`, then Ok(..).
GuestAfterTools(res) == IF res = "Ok" THEN "ok" ELSE "err"

\* No execute is running and no sandbox exists.
NoSandbox == [state |-> "none", text |-> NoText, step |-> 0, registered |-> {},
              guest |-> "none", param |-> NoText, writes |-> 0,
              allowed0 |-> NoUrl, result |-> "none",
              override |-> NoText, leased |-> NoText, connected |-> FALSE]
NoReply   == [fn |-> "none", url |-> NoText, tool |-> <<>>, status |-> 0,
              res |-> "none", read |-> NoUrl]

\* ---------------------------------------------------------------- helpers
Ev(op, res) == <<op, res>>

Has(l, op, res) == \E i \in 1..Len(l) : l[i] = Ev(op, res)
Did(l, op)      == \E i \in 1..Len(l) : l[i][1] = op
Pos(l, op)      == IF Did(l, op) THEN CHOOSE i \in 1..Len(l) : l[i][1] = op ELSE 0
Times(l, ops)   == Cardinality({i \in 1..Len(l) : l[i][1] \in ops})

NoRetry == [job |-> None, waiting |-> {}, overtaken |-> FALSE]

\* No queue call made yet.
NoCall == [op |-> "none", arg |-> None, ret |-> None, q0 |-> <<>>, p0 |-> <<>>,
           prev |-> "none", prevret |-> None]

\* A run of dequeues starting from pending q and in-flight p.
NewStreak(q, p) == [q0 |-> q, p0 |-> p, k |-> 0, done |-> FALSE]

\* The Job of queue.rs with no content: every string empty, no override URL
\* (an Option is a sequence of no or one value).
NoJob == [id |-> <<>>, repo_url |-> <<>>, branch |-> <<>>, prompt |-> <<>>,
          mcp_connection_url |-> <<>>]

\* Characters of a string: "n", a comma, a character outside ASCII, and the
\* three that JSON text cannot hold as they are.
QUOTE == "QUOTE"
BACKSLASH == "BACKSLASH"
LF == "LF"
Chars == {"n", ",", "U+00E9", QUOTE, BACKSLASH, LF}

\* The Strings of at most n characters.
Strs(n) == UNION {[1..k -> Chars] : k \in 0..n}

\* The Jobs a caller may enqueue.
JobValues ==
    [id : Strs(MaxShortLen), repo_url : Strs(MaxShortLen),
     branch : Strs(MaxShortLen), prompt : Strs(MaxStrLen),
     mcp_connection_url : {<<>>} \cup {<<u>> : u \in Strs(MaxShortLen)}]

\* A variant of EscapeChar that writes every character as it is.
EscapeCharRaw(c) == <<c>>

\* serde_json writing one character of a string.
EscapeChar(c) ==
    CASE c = QUOTE     -> <<BACKSLASH, QUOTE>>
      [] c = BACKSLASH -> <<BACKSLASH, BACKSLASH>>
      [] c = LF        -> <<BACKSLASH, "n">>
      [] OTHER         -> <<c>>

RECURSIVE Escaped(_)
Escaped(str) ==
    IF str = <<>> THEN <<>> ELSE EscapeChar(Head(str)) \o Escaped(Tail(str))

\* serde_json writing a String, an Option<String>, a field name.
JsonString(str) == <<QUOTE>> \o Escaped(str) \o <<QUOTE>>
JsonOption(opt) == IF opt = <<>> THEN <<"null">> ELSE JsonString(opt[1])
JsonKey(name) == <<QUOTE, name, QUOTE, ":">>

\* serde_json::to_string(job) for the derived Serialize of Job: the fields in
\* the order of their declaration.
ToJson(j) ==
    <<"{">> \o JsonKey("id") \o JsonString(j.id)
    \o <<",">> \o JsonKey("repo_url") \o JsonString(j.repo_url)
    \o <<",">> \o JsonKey("branch") \o JsonString(j.branch)
    \o <<",">> \o JsonKey("prompt") \o JsonString(j.prompt)
    \o <<",">> \o JsonKey("mcp_connection_url")
    \o JsonOption(j.mcp_connection_url) \o <<"}">>

\* The result of reading a value that is not there.
Unread == [ok |-> FALSE, val |-> <<>>, next |-> 0]

\* The token tok is at position i of text.
Expect(text, i, tok) == i >= 1 /\ i <= Len(text) /\ text[i] = tok

\* serde_json reading the characters of a string from position i up to the
\* closing quote; a raw control character or an unknown escape is an error.
RECURSIVE ReadChars(_, _, _)
ReadChars(text, i, acc) ==
    IF i > Len(text) THEN Unread
    ELSE IF text[i] = QUOTE THEN [ok |-> TRUE, val |-> acc, next |-> i + 1]
    ELSE IF text[i] = LF THEN Unread
    ELSE IF text[i] = BACKSLASH
         THEN IF Expect(text, i + 1, QUOTE)
              THEN ReadChars(text, i + 2, Append(acc, QUOTE))
              ELSE IF Expect(text, i + 1, BACKSLASH)
              THEN ReadChars(text, i + 2, Append(acc, BACKSLASH))
              ELSE IF Expect(text, i + 1, "n")
              THEN ReadChars(text, i + 2, Append(acc, LF))
              ELSE Unread
    ELSE ReadChars(text, i + 1, Append(acc, text[i]))

\* serde_json reading a String, an Option<String>.
ReadString(text, i) ==
    IF Expect(text, i, QUOTE) THEN ReadChars(text, i + 1, <<>>) ELSE Unread
ReadOption(text, i) ==
    IF Expect(text, i, "null") THEN [ok |-> TRUE, val |-> <<>>, next |-> i + 1]
    ELSE LET r == ReadString(text, i)
         IN  [ok |-> r.ok, val |-> <<r.val>>, next |-> r.next]

\* The fields of Job in the order of their declaration.
FieldOrder == <<"id", "repo_url", "branch", "prompt", "mcp_connection_url">>

\* serde_json::to_string of the field `name` of a Job.
JsonValue(j, name) ==
    IF name = "mcp_connection_url" THEN JsonOption(j[name]) ELSE JsonString(j[name])

\* The members of a JSON object holding the fields `names` of j, with the
\* tokens sp after each colon and comma.
RECURSIVE Members(_, _, _)
Members(j, names, sp) ==
    IF names = <<>> THEN <<>>
    ELSE JsonKey(Head(names)) \o sp \o JsonValue(j, Head(names))
         \o (IF Len(names) > 1 THEN <<",">> \o sp ELSE <<>>)
         \o Members(j, Tail(names), sp)

\* Ways a producer writes a Job as JSON text: as serde_json does, with a
\* space after colons and commas, with the fields in another order, without
\* the optional field.
Styles == {"serde", "spaced", "reordered", "omitted"}

\* The text a producer writing in the given style pushes for the Job j.
EncodeAs(j, style) ==
    CASE style = "serde"     -> ToJson(j)
      [] style = "spaced"    -> <<"{">> \o Members(j, FieldOrder, <<"SP">>) \o <<"}">>
      [] style = "reordered" ->
            <<"{">> \o Members(j, <<"mcp_connection_url", "prompt", "branch",
                                    "repo_url", "id">>, <<>>) \o <<"}">>
      [] style = "omitted"   ->
            <<"{">> \o Members(j, SubSeq(FieldOrder, 1, 4), <<>>) \o <<"}">>

\* The Jobs such a producer enqueues.
ForeignJobs ==
    [id : Strs(MaxShortLen), repo_url : {<<"n">>}, branch : {<<"n">>},
     prompt : Strs(MaxShortLen),
     mcp_connection_url : {<<>>, << <<"n">> >>}]

\* serde_json skipping the whitespace between the tokens of a text.
Lex(text) == SelectSeq(text, LAMBDA t : t # "SP")

\* serde_json reading the members of an object from position i, for the
\* derived Deserialize of Job: fields in any order, none twice; got[name] is
\* <<>> or holds the value read.
RECURSIVE ReadFields(_, _, _)
ReadFields(text, i, got) ==
    IF ~(/\ Expect(text, i, QUOTE) /\ Expect(text, i + 2, QUOTE)
         /\ Expect(text, i + 3, ":")
         /\ \E k \in 1..Len(FieldOrder) : text[i + 1] = FieldOrder[k])
    THEN [ok |-> FALSE, got |-> got]
    ELSE LET name == text[i + 1]
             r == IF name = "mcp_connection_url" THEN ReadOption(text, i + 4)
                  ELSE ReadString(text, i + 4)
             now == [got EXCEPT ![name] = <<r.val>>]
         IN  IF ~r.ok \/ got[name] # <<>> THEN [ok |-> FALSE, got |-> got]
             ELSE IF Expect(text, r.next, ",")
                  THEN ReadFields(text, r.next + 1, now)
             ELSE [ok |-> Expect(text, r.next, "}") /\ r.next = Len(text),
                   got |-> now]

\* serde_json::from_str::<Job>(text): the String fields are required, a
\* missing Option field is None.
FromJson(text) ==
    LET t == Lex(text)
        r == IF Expect(t, 1, "{")
             THEN ReadFields(t, 2, [k \in {FieldOrder[n] : n \in 1..Len(FieldOrder)}
                                       |-> <<>>])
             ELSE [ok |-> FALSE, got |-> <<>>]
        set(name) == r.got[name] # <<>>
    IN  IF r.ok /\ set("id") /\ set("repo_url") /\ set("branch") /\ set("prompt")
        THEN [ok  |-> TRUE,
              job |-> [id |-> r.got["id"][1], repo_url |-> r.got["repo_url"][1],
                       branch |-> r.got["branch"][1],
                       prompt |-> r.got["prompt"][1],
                       mcp_connection_url |->
                           IF set("mcp_connection_url")
                           THEN r.got["mcp_connection_url"][1] ELSE <<>>]]
        ELSE [ok |-> FALSE, job |-> NoJob]

\* No Job has been enqueued as text yet.
NoCodec == [job |-> NoJob, out |-> NoJob, ret |-> "none"]

\* The clone after checkout_branch: one commit, index and working tree equal
\* to its tree (a tree is the number of the content it holds).
NoRepo == [commits |-> <<0>>, index |-> 0, work |-> 0, ret |-> "none"]

TypeOK ==
    /\ Elems(queue) \subseteq {Serialize(j) : j \in Jobs} \cup {Poison}
    /\ Elems(processing) \subseteq {Serialize(j) : j \in Jobs} \cup {Poison}
    /\ enqueued \subseteq Jobs /\ acked \subseteq Jobs
    /\ job \in [Workers -> Jobs \cup {None}]
    /\ guard \in [Workers -> {"none", "some", "taken"}]
    /\ dropThreads \in [Workers -> 0..MaxThreads]
    /\ dirs \subseteq Jobs
    /\ calls \in [Workers -> Seq({"ack", "nack", "dequeue_err", "ack_err",
                               "nack_err"})]

Init ==
    /\ queue = <<>>
    /\ processing = <<>>
    /\ enqueued = {}
    /\ acked = {}
    /\ pc = [w \in Workers |-> "start"]
    /\ job = [w \in Workers |-> None]
    /\ guard = [w \in Workers |-> "none"]
    /\ log = [w \in Workers |-> <<>>]
    /\ dropThreads = [w \in Workers |-> 0]
    /\ dirs = {}
    /\ calls = [w \in Workers |-> <<>>]
    /\ retry = NoRetry
    /\ last = NoCall
    /\ streak = NewStreak(<<>>, <<>>)
    /\ order = [enq |-> <<>>, deq |-> <<>>, disturbed |-> FALSE]
    /\ allowed_mcp_url = NoUrl
    /\ sandbox = NoSandbox
    /\ requests = {}
    /\ reply = NoReply
    /\ codec = NoCodec
    /\ repo = NoRepo


\* ------------------------------------------------ control flow of the worker
\* A variant of AfterIterationError that leaves the loop.
AfterIterationErrorStops == "stopped"

\* run, the Err arm of the match on process_next_job: log, next iteration.
AfterIterationError == "done"

\* A variant of NextIteration that calls recover in every iteration.
NextIterationRecovers == "recover"

\* run: the loop body is process_next_job alone, which starts with dequeue.
NextIteration == "dequeue"

\* A variant of InFlightAfterDequeue that drops a record that does not deserialize.
InFlightAfterDequeueValid(p, rec) ==
    IF DeserializeFails(rec) THEN p ELSE LPush(p, rec)

\* dequeue: BRPOPLPUSH has put the record in processing before it is deserialized.
InFlightAfterDequeue(p, rec) == LPush(p, rec)

\* A variant of Decision that acknowledges whatever process_job returned.
DecisionAlwaysAck(result) == "ack"

\* process_next_job, the match on process_job's result: Ok -> ack, Err -> nack.
Decision(result) == IF result = "ok" THEN "ack" ELSE "nack"

\* A variant of AfterDecision where the Ok arm falls through into the Err arm.
AfterDecisionFallThrough(d) == IF d = "ack" THEN "nack" ELSE "done"

\* process_next_job after its ack / nack call: Ok(true), back to run's loop.
AfterDecision(d) == "done"

\* A variant of DropSpawnsReturn that does not look at the Option: a guard
\* whose instance was already taken returns it again.
DropSpawnsReturnAlways(g) == g # "none"

\* impl Drop for InstanceGuard: the instance is returned from a detached
\* thread iff the guard still holds it.
DropSpawnsReturn(g) == g = "some"

\* A variant of NackPushes that re-enqueues whatever LREM removed.
NackPushesAlways(removed) == TRUE

\* ReliableQueue::nack: `if removed > 0`.
NackPushes(removed) == removed > 0

\* A variant of RecoverRequeue that puts the record at the tail of pending.
RecoverRequeueAtTail(list, rec) == Append(list, rec)

\* recover_stalled_jobs: RPOPLPUSH pushes at the head of the main queue.
RecoverRequeue(list, rec) == LPush(list, rec)

\* A variant of RecoveredAfter that does not count the record.
RecoveredAfterLost(recovered) == recovered

\* recover_stalled_jobs: `Some(_) => recovered += 1`.
RecoveredAfter(recovered) == recovered + 1

\* A variant of NackRequeue that re-enqueues at the tail, where dequeue pops.
NackRequeueAtTail(list, rec) == Append(list, rec)

\* ReliableQueue::nack, the re-enqueue: LPUSH to the main queue.
NackRequeue(list, rec) == LPush(list, rec)

\* A variant of GuardAfterBorrow that makes the guard before the result of
\* borrow_instance is looked at.
GuardAfterBorrowAlways(ok) == "some"

\* process_job: `borrow_instance().await?`, then InstanceGuard::new: a guard
\* exists only when the borrow returned an instance.
GuardAfterBorrow(ok) == IF ok THEN "some" ELSE "none"

\* A variant of NextStep that runs the agent on the clone before the branch
\* is checked out.
NextStepAgentFirst(step) ==
    CASE step = "borrow"   -> "clone"
      [] step = "clone"    -> "execute"
      [] step = "execute"  -> "checkout"
      [] step = "checkout" -> "publish"
      [] step = "publish"  -> "cleanup"
      [] step = "cleanup"  -> "return"
      [] step = "return"   -> "Ok"

\* A variant of NextStep where process_job returns Ok right after the push and
\* leaves the workspace removal and the lease return to its caller.
NextStepAckFirst(step) ==
    CASE step = "borrow"   -> "clone"
      [] step = "clone"    -> "checkout"
      [] step = "checkout" -> "execute"
      [] step = "execute"  -> "publish"
      [] step = "publish"  -> "Ok"
      [] step = "cleanup"  -> "return"
      [] step = "return"   -> "Ok"

\* The step of process_job (its "Step 1" .. "Step 7") that follows a
\* successful step; "Ok" is the final Ok(()).
NextStep(step) ==
    CASE step = "borrow"   -> "clone"
      [] step = "clone"    -> "checkout"
      [] step = "checkout" -> "execute"
      [] step = "execute"  -> "publish"
      [] step = "publish"  -> "cleanup"
      [] step = "cleanup"  -> "return"
      [] step = "return"   -> "Ok"

\* process_job returns `result` (an early `?` return or the final Ok(())): its
\* locals are dropped, the guard last seen in state g, and process_next_job
\* takes the matching arm.
Leave(w, evs, result, g) ==
    LET spawn == DropSpawnsReturn(g)
    IN  /\ spawn => dropThreads[w] < MaxThreads
        /\ log' = [log EXCEPT ![w] =
                      IF spawn THEN @ \o evs \o <<Ev("drop_return", "spawned")>>
                      ELSE @ \o evs]
        /\ dropThreads' = [dropThreads EXCEPT ![w] = IF spawn THEN @ + 1 ELSE @]
        /\ guard' = [guard EXCEPT ![w] = "none"]
        /\ pc' = [pc EXCEPT ![w] = Decision(result)]

\* The step `step` of process_job succeeded; the guard is now in state g.
Advance(w, step, evs, g) ==
    IF NextStep(step) = "Ok"
    THEN Leave(w, evs, "ok", g)
    ELSE /\ log' = [log EXCEPT ![w] = @ \o evs]
         /\ pc' = [pc EXCEPT ![w] = NextStep(step)]
         /\ guard' = [guard EXCEPT ![w] = g]
         /\ UNCHANGED dropThreads

\* ------------------------------------------------------------------ producer
\* ReliableQueue::enqueue (job ids are unique: each job is enqueued once).
Enqueue(j) ==
    /\ j \notin enqueued
    /\ queue' = LPush(queue, Serialize(j))
    /\ enqueued' = enqueued \cup {j}
    /\ UNCHANGED <<processing, acked, pc, job, guard, log, dropThreads, dirs,
                   calls, retry>>
    /\ UNCHANGED callVars

\* ---------------------------------------------------------------- Worker::run
\* The worker process starts (Worker::new, then run).
Start(w) ==
    /\ pc[w] = "start"
    /\ pc' = [pc EXCEPT ![w] = "recover"]
    /\ UNCHANGED <<queue, processing, enqueued, acked, job, guard, log,
                   dropThreads, dirs, calls, retry>>
    /\ UNCHANGED callVars

\* One iteration of the loop of recover_stalled_jobs: RPOPLPUSH processing -> queue.
RecoverStep(w) ==
    /\ pc[w] = "recover"
    /\ IF processing # <<>>
       THEN /\ queue' = RecoverRequeue(queue, Tail1(processing))
            /\ processing' = RPop(processing)
            /\ UNCHANGED pc
       ELSE /\ pc' = [pc EXCEPT ![w] = "dequeue"]
            /\ UNCHANGED <<queue, processing>>
    /\ UNCHANGED <<enqueued, acked, job, guard, log, dropThreads, dirs, calls,
                   retry>>
    /\ UNCHANGED callVars

\* The job k leaves the main queue: the job nack re-enqueued is served or overtaken.
Served(k) ==
    IF retry.job = None THEN retry
    ELSE IF k = retry.job THEN NoRetry
    ELSE [retry EXCEPT !.waiting = @ \ {k}, !.overtaken = TRUE]

\* process_next_job: ReliableQueue::dequeue, BRPOPLPUSH queue -> processing.
Dequeue(w) ==
    /\ pc[w] = "dequeue"
    /\ \/ /\ queue # <<>>
          /\ processing' = InFlightAfterDequeue(processing, Tail1(queue))
          /\ queue' = RPop(queue)
          /\ IF DeserializeFails(Tail1(queue))
             THEN /\ pc' = [pc EXCEPT ![w] = AfterIterationError]   \* Err
                  /\ calls' = [calls EXCEPT ![w] = Append(@, "dequeue_err")]
                  /\ UNCHANGED <<job, retry>>
             ELSE /\ job' = [job EXCEPT ![w] = Deserialize(Tail1(queue))]
                  /\ retry' = Served(Deserialize(Tail1(queue)))
                  /\ pc' = [pc EXCEPT ![w] = "borrow"]
                  /\ UNCHANGED calls
       \/ /\ queue = <<>>                       \* timeout: Ok(None), Ok(false)
          /\ pc' = [pc EXCEPT ![w] = "done"]
          /\ UNCHANGED <<queue, processing, job, retry, calls>>
    /\ UNCHANGED <<enqueued, acked, guard, log, dropThreads, dirs>>
    /\ UNCHANGED callVars

\* run's loop: the result of process_next_job is logged, next iteration.
LoopBack(w) ==
    /\ pc[w] = "done"
    /\ pc' = [pc EXCEPT ![w] = NextIteration]
    /\ job' = [job EXCEPT ![w] = None]
    /\ calls' = [calls EXCEPT ![w] = <<>>]
    /\ UNCHANGED <<queue, processing, enqueued, acked, guard, log, dropThreads,
                   dirs, retry>>
    /\ UNCHANGED callVars

\* ---------------------------------------------------------------- process_job
\* Step 1: borrow_instance, then InstanceGuard::new.
Borrow(w) ==
    /\ pc[w] = "borrow"
    /\ \/ Advance(w, "borrow", <<Ev("borrow", "ok")>>, GuardAfterBorrow(TRUE))
       \/ Leave(w, <<Ev("borrow", "err")>>, "err", GuardAfterBorrow(FALSE))
    /\ UNCHANGED <<queue, processing, enqueued, acked, job, dirs, calls, retry>>
    /\ UNCHANGED callVars

\* Step 2: remove a directory left at <work_dir>/<job_id>, then GitRepo::clone.
Clone(w) ==
    /\ pc[w] = "clone"
    /\ \/ /\ job[w] \in dirs                     \* remove_dir_all fails
          /\ Leave(w, <<Ev("rm_existing", "err")>>, "err", guard[w])
          /\ UNCHANGED dirs
       \/ /\ Advance(w, "clone", <<Ev("clone", "ok")>>, guard[w])
          /\ dirs' = dirs \cup {job[w]}
       \/ /\ Leave(w, <<Ev("clone", "err")>>, "err", guard[w])
          /\ \/ dirs' = dirs \ {job[w]}          \* the failed clone left nothing
             \/ dirs' = dirs \cup {job[w]}       \* or a partial directory
    /\ UNCHANGED <<queue, processing, enqueued, acked, job, calls, retry>>
    /\ UNCHANGED callVars

\* Step 3: fetch, then checkout_branch.
Checkout(w) ==
    /\ pc[w] = "checkout"
    /\ \/ Advance(w, "checkout", <<Ev("fetch", "ok"), Ev("checkout", "ok")>>, guard[w])
       \/ Leave(w, <<Ev("fetch", "err")>>, "err", guard[w])
       \/ Leave(w, <<Ev("fetch", "ok"), Ev("checkout", "err")>>, "err", guard[w])
    /\ UNCHANGED <<queue, processing, enqueued, acked, job, dirs, calls, retry>>
    /\ UNCHANGED callVars

\* Step 4: AgentExecutor::execute.
Execute(w) ==
    /\ pc[w] = "execute"
    /\ \/ Advance(w, "execute", <<Ev("execute", "ok")>>, guard[w])
       \/ Leave(w, <<Ev("execute", "err")>>, "err", guard[w])
    /\ UNCHANGED <<queue, processing, enqueued, acked, job, dirs, calls, retry>>
    /\ UNCHANGED callVars

\* Step 5: has_changes, then stage_all, commit, push when there are changes.
Publish(w) ==
    /\ pc[w] = "publish"
    /\ \/ Advance(w, "publish", <<Ev("has_changes", "clean")>>, guard[w])
       \/ Advance(w, "publish", <<Ev("has_changes", "changed"), Ev("stage", "ok"),
                                  Ev("commit", "ok"), Ev("push", "ok")>>, guard[w])
       \/ Leave(w, <<Ev("has_changes", "err")>>, "err", guard[w])
       \/ Leave(w, <<Ev("has_changes", "changed"), Ev("stage", "err")>>, "err", guard[w])
       \/ Leave(w, <<Ev("has_changes", "changed"), Ev("stage", "ok"),
                     Ev("commit", "err")>>, "err", guard[w])
       \/ Leave(w, <<Ev("has_changes", "changed"), Ev("stage", "ok"),
                     Ev("commit", "ok"), Ev("push", "err")>>, "err", guard[w])
    /\ UNCHANGED <<queue, processing, enqueued, acked, job, dirs, calls, retry>>
    /\ UNCHANGED callVars

\* Step 6: remove_dir_all(repo_dir).
Cleanup(w) ==
    /\ pc[w] = "cleanup"
    /\ \/ /\ job[w] \in dirs
          /\ Advance(w, "cleanup", <<Ev("cleanup", "ok")>>, guard[w])
          /\ dirs' = dirs \ {job[w]}
       \/ /\ Leave(w, <<Ev("cleanup", "err")>>, "err", guard[w])
          /\ UNCHANGED dirs
    /\ UNCHANGED <<queue, processing, enqueued, acked, job, calls, retry>>
    /\ UNCHANGED callVars

\* Step 7: InstanceGuard::return_instance: take() the instance, call the
\* allocator, then the consumed guard is dropped.
ReturnInstance(w) ==
    /\ pc[w] = "return"
    /\ guard[w] = "some"
    /\ \/ Advance(w, "return", <<Ev("return", "ok")>>, "taken")
       \/ Leave(w, <<Ev("return", "err")>>, "err", "taken")
    /\ UNCHANGED <<queue, processing, enqueued, acked, job, dirs, calls, retry>>
    /\ UNCHANGED callVars

\* The thread spawned by Drop calls allocator.return_instance.
DropThread(w) ==
    /\ dropThreads[w] > 0
    /\ dropThreads' = [dropThreads EXCEPT ![w] = @ - 1]
    /\ UNCHANGED <<queue, processing, enqueued, acked, pc, job, guard, log,
                   dirs, calls, retry>>
    /\ UNCHANGED callVars

\* ------------------------------------------------------------- ack and nack
\* ReliableQueue::ack: LREM processing 1 job_json.
Ack(w) ==
    /\ pc[w] = "ack"
    /\ processing' = LRem(processing, Serialize(job[w]))
    /\ acked' = IF LRemCount(processing, Serialize(job[w])) > 0
                THEN acked \cup {job[w]} ELSE acked
    /\ calls' = [calls EXCEPT ![w] = Append(@, "ack")]
    /\ log' = [log EXCEPT ![w] = <<>>]
    /\ pc' = [pc EXCEPT ![w] = AfterDecision("ack")]
    /\ UNCHANGED <<queue, enqueued, job, guard, dropThreads, dirs, retry>>
    /\ UNCHANGED callVars

\* ReliableQueue::nack, first command: LREM processing 1 job_json.
Nack(w) ==
    /\ pc[w] = "nack"
    /\ processing' = LRem(processing, Serialize(job[w]))
    /\ calls' = [calls EXCEPT ![w] = Append(@, "nack")]
    /\ log' = [log EXCEPT ![w] = <<>>]
    /\ pc' = [pc EXCEPT ![w] = IF NackPushes(LRemCount(processing, Serialize(job[w])))
                               THEN "nack_push" ELSE AfterDecision("nack")]
    /\ UNCHANGED <<queue, enqueued, acked, job, guard, dropThreads, dirs, retry>>
    /\ UNCHANGED callVars

\* ReliableQueue::nack, second command: LPUSH queue job_json.
NackPush(w) ==
    /\ pc[w] = "nack_push"
    /\ queue' = NackRequeue(queue, Serialize(job[w]))
    /\ retry' = [job |-> job[w],
                 waiting |-> {Deserialize(r) : r \in Elems(queue)},
                 overtaken |-> FALSE]
    /\ pc' = [pc EXCEPT ![w] = AfterDecision("nack")]
    /\ UNCHANGED <<processing, enqueued, acked, job, guard, log, dropThreads,
                   dirs, calls>>
    /\ UNCHANGED callVars

\* ------------------------------------------------------------------- crash
\* The worker process dies between two steps; its threads die with it.
Crash(w) ==
    /\ pc[w] # "start"
    /\ pc' = [pc EXCEPT ![w] = "start"]
    /\ job' = [job EXCEPT ![w] = None]
    /\ guard' = [guard EXCEPT ![w] = "none"]
    /\ log' = [log EXCEPT ![w] = <<>>]
    /\ calls' = [calls EXCEPT ![w] = <<>>]
    /\ dropThreads' = [dropThreads EXCEPT ![w] = 0]
    /\ UNCHANGED <<queue, processing, enqueued, acked, dirs, retry>>
    /\ UNCHANGED callVars

\* ---------------------------------------- process_job, step 2 in two steps
\* Step 2, first half: `if repo_dir.exists() { remove_dir_all(&repo_dir)? }`.
RemoveExisting(w) ==
    /\ pc[w] = "clone"
    /\ IF job[w] \in dirs
       THEN \/ /\ dirs' = dirs \ {job[w]}
               /\ log' = [log EXCEPT ![w] = Append(@, Ev("rm_existing", "ok"))]
               /\ pc' = [pc EXCEPT ![w] = "cloning"]
               /\ UNCHANGED <<guard, dropThreads>>
            \/ /\ Leave(w, <<Ev("rm_existing", "err")>>, "err", guard[w])
               /\ UNCHANGED dirs
       ELSE /\ pc' = [pc EXCEPT ![w] = "cloning"]
            /\ UNCHANGED <<dirs, log, guard, dropThreads>>
    /\ UNCHANGED <<queue, processing, enqueued, acked, job, calls, retry>>
    /\ UNCHANGED callVars

\* Step 2, second half: GitRepo::clone(&job.repo_url, &repo_dir); a clone
\* into a directory that exists and is not empty fails and leaves it.
CloneRepo(w) ==
    /\ pc[w] = "cloning"
    /\ IF job[w] \in dirs
       THEN /\ Leave(w, <<Ev("clone", "err")>>, "err", guard[w])
            /\ UNCHANGED dirs
       ELSE \/ /\ Advance(w, "clone", <<Ev("clone", "ok")>>, guard[w])
               /\ dirs' = dirs \cup {job[w]}
            \/ /\ Leave(w, <<Ev("clone", "err")>>, "err", guard[w])
               /\ \/ UNCHANGED dirs                 \* the failed clone left nothing
                  \/ dirs' = dirs \cup {job[w]}     \* or a partial directory
    /\ UNCHANGED <<queue, processing, enqueued, acked, job, calls, retry>>
    /\ UNCHANGED callVars

\* ------------------------------------------- failing calls of the run loop
\* Something else than a producer pushes a text that is no Job on the queue.
PushPoison ==
    /\ Count(queue, Poison) + Count(processing, Poison) < MaxPoison
    /\ queue' = LPush(queue, Poison)
    /\ UNCHANGED <<processing, workerVars, callVars>>

\* run: recover_stalled_jobs returns Err (RPOPLPUSH failed); `?` ends run and
\* the process.
RecoverFails(w) ==
    /\ pc[w] = "recover"
    /\ pc' = [pc EXCEPT ![w] = "stopped"]
    /\ UNCHANGED <<queue, processing, enqueued, acked, job, guard, log,
                   dropThreads, dirs, calls, retry>>
    /\ UNCHANGED callVars

\* dequeue: BRPOPLPUSH returns an error to the client; the broker has
\* executed the command or not.
DequeueFails(w) ==
    /\ pc[w] = "dequeue"
    /\ \/ UNCHANGED <<queue, processing>>
       \/ /\ queue # <<>>
          /\ processing' = LPush(processing, Tail1(queue))
          /\ queue' = RPop(queue)
    /\ pc' = [pc EXCEPT ![w] = AfterIterationError]
    /\ calls' = [calls EXCEPT ![w] = Append(@, "dequeue_err")]
    /\ UNCHANGED <<enqueued, acked, job, guard, log, dropThreads, dirs, retry>>
    /\ UNCHANGED callVars

\* ack: LREM returns an error to the client; `?` ends process_next_job.
AckFails(w) ==
    /\ pc[w] = "ack"
    /\ \/ UNCHANGED processing
       \/ processing' = LRem(processing, Serialize(job[w]))
    /\ calls' = [calls EXCEPT ![w] = Append(@, "ack_err")]
    /\ log' = [log EXCEPT ![w] = <<>>]
    /\ pc' = [pc EXCEPT ![w] = AfterIterationError]
    /\ UNCHANGED <<queue, enqueued, acked, job, guard, dropThreads, dirs, retry>>
    /\ UNCHANGED callVars

\* nack: LREM returns an error to the client.
NackFails(w) ==
    /\ pc[w] = "nack"
    /\ \/ UNCHANGED processing
       \/ processing' = LRem(processing, Serialize(job[w]))
    /\ calls' = [calls EXCEPT ![w] = Append(@, "nack_err")]
    /\ log' = [log EXCEPT ![w] = <<>>]
    /\ pc' = [pc EXCEPT ![w] = AfterIterationError]
    /\ UNCHANGED <<queue, enqueued, acked, job, guard, dropThreads, dirs, retry>>
    /\ UNCHANGED callVars

\* nack: LPUSH returns an error to the client.
NackPushFails(w) ==
    /\ pc[w] = "nack_push"
    /\ \/ UNCHANGED queue
       \/ queue' = LPush(queue, Serialize(job[w]))
    /\ calls' = [calls EXCEPT ![w] = Append(@, "nack_err")]
    /\ pc' = [pc EXCEPT ![w] = AfterIterationError]
    /\ UNCHANGED <<processing, enqueued, acked, job, guard, log, dropThreads,
                   dirs, retry>>
    /\ UNCHANGED callVars

\* ------------------------------------------------- a Job through the queue
\* ReliableQueue::enqueue(job) on empty lists: LPUSH of serde_json::to_string(job).
CodecEnqueue ==
    /\ codec.ret \in {"none", "acked"} /\ queue = <<>> /\ processing = <<>>
    /\ \E j \in JobValues :
          /\ queue' = LPush(queue, ToJson(j))
          /\ codec' = [job |-> j, out |-> NoJob, ret |-> "enqueued"]
    /\ UNCHANGED <<processing, workerVars, clientVars, agentVars, repo>>

\* A producer that is not this program pushes the text of a Job on empty lists.
ForeignEnqueue ==
    /\ codec.ret \in {"none", "acked"} /\ queue = <<>> /\ processing = <<>>
    /\ \E j \in ForeignJobs, style \in Styles :
          /\ style = "omitted" => j.mcp_connection_url = <<>>
          /\ queue' = LPush(queue, EncodeAs(j, style))
          /\ codec' = [job |-> j, out |-> NoJob, ret |-> "enqueued"]
    /\ UNCHANGED <<processing, workerVars, clientVars, agentVars, repo>>

\* ReliableQueue::dequeue: BRPOPLPUSH, then serde_json::from_str.
CodecDequeue ==
    /\ codec.ret = "enqueued" /\ queue # <<>>
    /\ processing' = LPush(processing, Tail1(queue))
    /\ queue' = RPop(queue)
    /\ codec' = IF FromJson(Tail1(queue)).ok
                THEN [codec EXCEPT !.out = FromJson(Tail1(queue)).job, !.ret = "ok"]
                ELSE [codec EXCEPT !.ret = "err"]
    /\ UNCHANGED <<workerVars, clientVars, agentVars, repo>>

\* ReliableQueue::ack of the Job dequeue returned.
CodecAck ==
    /\ codec.ret = "ok"
    /\ processing' = LRem(processing, ToJson(codec.out))
    /\ codec' = [NoCodec EXCEPT !.ret = "acked"]
    /\ UNCHANGED <<queue, workerVars, clientVars, agentVars, repo>>

\* ------------------------------------------------------------ a GitRepo
\* The contents a tree may have.
Trees == 0..MaxTree

\* Something (the agent, a test) changes files of the working tree.
EditWorkTree(t) ==
    /\ t # repo.work
    /\ repo' = [repo EXCEPT !.work = t]
    /\ UNCHANGED <<queue, processing, workerVars, clientVars, agentVars, codec>>

\* GitRepo::stage_all: index.add_all(["*"]), index.write().
StageAll ==
    /\ repo' = [repo EXCEPT !.index = repo.work, !.ret = "staged"]
    /\ UNCHANGED <<queue, processing, workerVars, clientVars, agentVars, codec>>

\* GitRepo::commit(message): write_tree of the index, the ambient signature,
\* HEAD as parent, Repository::commit(Some("HEAD"), ..); the tree is not
\* compared with the parent's.
Commit ==
    /\ Len(repo.commits) < MaxCommits
    /\ \/ repo' = [repo EXCEPT !.ret = "err"]         \* no signature configured
       \/ repo' = [repo EXCEPT !.commits = Append(@, repo.index), !.ret = "ok"]
    /\ UNCHANGED <<queue, processing, workerVars, clientVars, agentVars, codec>>

\* -------------------------------------------------------- a queue client
\* A client of ReliableQueue calling its methods one after the other, with any
\* Job as argument; the same Job may be enqueued more than once.

\* The client is between two calls (not between two commands of one call).
Idle == last.op \notin {"nack_lrem", "recover_loop"}

\* The history record of a call that starts now.
Call(op, arg, ret) ==
    [op |-> op, arg |-> arg, ret |-> ret, q0 |-> queue, p0 |-> processing,
     prev |-> last.op, prevret |-> last.ret]

\* ReliableQueue::enqueue.
ClientEnqueue(j) ==
    /\ Idle
    /\ Len(order.enq) < MaxEnq
    /\ queue' = LPush(queue, Serialize(j))
    /\ last' = Call("enqueue", j, None)
    /\ streak' = NewStreak(queue', processing)
    /\ order' = [order EXCEPT !.enq = Append(@, Serialize(j))]
    /\ UNCHANGED <<processing, workerVars, agentVars, libVars>>

\* ReliableQueue::dequeue: BRPOPLPUSH queue -> processing, or a timeout.
ClientDequeue ==
    /\ Idle
    /\ IF queue # <<>>
       THEN /\ processing' = LPush(processing, Tail1(queue))
            /\ queue' = RPop(queue)
            /\ last' = Call("dequeue", None, Deserialize(Tail1(queue)))
            /\ streak' = IF streak.done
                         THEN [NewStreak(queue, processing) EXCEPT !.k = 1]
                         ELSE [streak EXCEPT !.k = @ + 1]
            /\ order' = IF order.disturbed THEN order
                        ELSE [order EXCEPT !.deq = Append(@, Tail1(queue))]
       ELSE /\ last' = Call("dequeue", None, None)
            /\ UNCHANGED <<queue, processing, streak, order>>
    /\ UNCHANGED <<workerVars, agentVars, libVars>>

\* ReliableQueue::ack: LREM processing 1 job_json; Ok whatever was removed.
ClientAck(j) ==
    /\ Idle
    /\ processing' = LRem(processing, Serialize(j))
    /\ last' = Call("ack", j, LRemCount(processing, Serialize(j)))
    /\ streak' = NewStreak(queue, processing')
    /\ UNCHANGED <<queue, order, workerVars, agentVars, libVars>>

\* ReliableQueue::nack, first command: LREM processing 1 job_json.
ClientNack(j) ==
    /\ Idle
    /\ processing' = LRem(processing, Serialize(j))
    /\ last' = Call(IF NackPushes(LRemCount(processing, Serialize(j)))
                    THEN "nack_lrem" ELSE "nack",
                    j, LRemCount(processing, Serialize(j)))
    /\ streak' = NewStreak(queue, processing')
    /\ order' = [order EXCEPT !.disturbed = TRUE]
    /\ UNCHANGED <<queue, workerVars, agentVars, libVars>>

\* ReliableQueue::nack, second command: LPUSH queue job_json, then Ok.
ClientNackPush ==
    /\ last.op = "nack_lrem"
    /\ queue' = NackRequeue(queue, Serialize(last.arg))
    /\ last' = [last EXCEPT !.op = "nack"]
    /\ streak' = NewStreak(queue', processing)
    /\ UNCHANGED <<processing, order, workerVars, agentVars, libVars>>

\* ReliableQueue::recover_stalled_jobs: one RPOPLPUSH processing -> queue of
\* its loop; the call returns `recovered` when the command returns nothing.
ClientRecoverStep ==
    /\ Idle \/ last.op = "recover_loop"
    /\ LET cur == IF Idle THEN Call("recover_loop", None, 0) ELSE last
       IN  IF processing # <<>>
           THEN /\ queue' = RecoverRequeue(queue, Tail1(processing))
                /\ processing' = RPop(processing)
                /\ last' = [cur EXCEPT !.ret = RecoveredAfter(@)]
                /\ UNCHANGED streak
           ELSE /\ last' = [cur EXCEPT !.op = "recover"]
                /\ streak' = [streak EXCEPT !.done = TRUE]
                /\ UNCHANGED <<queue, processing>>
    /\ order' = [order EXCEPT !.disturbed = TRUE]
    /\ UNCHANGED <<workerVars, agentVars, libVars>>

\* ReliableQueue::peek: LINDEX queue -1.
ClientPeek ==
    /\ Idle
    /\ last' = Call("peek", None,
                    IF queue = <<>> THEN None ELSE Deserialize(PeekAt(queue)))
    /\ UNCHANGED <<queue, processing, streak, order, workerVars, agentVars, libVars>>

\* ------------------------------------------------------- the agent executor
\* The step of execute at which the current call is.
AtStep(name) ==
    /\ sandbox.step > 0 /\ sandbox.step <= Len(SetupOrder)
    /\ SetupOrder[sandbox.step] = name

\* execute returns Err: whatever sandbox exists is dropped.
Failed == [NoSandbox EXCEPT !.result = "err"]

\* AgentExecutor::execute is called with mcp_connection_url = text.
AgentStart(text) ==
    /\ sandbox.step = 0 /\ sandbox.state = "none"
    /\ sandbox' = [NoSandbox EXCEPT !.text = text, !.step = 1]
    /\ requests' = {}
    /\ reply' = NoReply
    /\ UNCHANGED allowed_mcp_url

\* A caller of AgentExecutor::execute with any mcp_connection_url.
AgentExecute(text) ==
    /\ AgentStart(text)
    /\ UNCHANGED <<queue, processing, workerVars, libVars, clientVars>>

\* execute: "Set the allowed MCP URL for this execution"; a URL that does not
\* parse ends execute before the allow-list is written.
WriteAllowList ==
    /\ AtStep("write")
    /\ IF sandbox.text # NoText /\ ParseFails(sandbox.text)
       THEN /\ sandbox' = Failed
            /\ UNCHANGED allowed_mcp_url
       ELSE /\ allowed_mcp_url' = IF sandbox.text = NoText THEN NoUrl
                                  ELSE Parse(sandbox.text)
            /\ sandbox' = [sandbox EXCEPT !.writes = @ + 1, !.step = @ + 1]
    /\ UNCHANGED <<queue, processing, workerVars, libVars, clientVars, requests, reply>>

\* execute: UninitializedSandbox::new.
NewSandbox ==
    /\ AtStep("new")
    /\ \/ sandbox' = [sandbox EXCEPT !.state = "uninitialized",
                                     !.allowed0 = allowed_mcp_url,
                                     !.step = @ + 1]
       \/ sandbox' = Failed
    /\ UNCHANGED <<queue, processing, workerVars, libVars, clientVars,
                   allowed_mcp_url, requests, reply>>

\* execute: register_host_functions registers the three host functions.
RegisterHostFunctions ==
    /\ AtStep("register")
    /\ \/ sandbox' = [sandbox EXCEPT !.state = "registered",
                                     !.registered = HostFunctions,
                                     !.step = @ + 1]
       \/ sandbox' = Failed
    /\ UNCHANGED <<queue, processing, workerVars, libVars, clientVars,
                   allowed_mcp_url, requests, reply>>

\* execute: uninitialized.evolve().
Evolve ==
    /\ AtStep("evolve")
    /\ \/ sandbox' = [sandbox EXCEPT !.state = "ready", !.step = @ + 1]
       \/ sandbox' = Failed
    /\ UNCHANGED <<queue, processing, workerVars, libVars, clientVars,
                   allowed_mcp_url, requests, reply>>

\* execute: sandbox.call("ExecuteAgent", (prompt, mcp_url_param)), the guest
\* being the one of guest/src/lib.rs.
CallGuest ==
    /\ AtStep("call")
    /\ sandbox' = [sandbox EXCEPT !.guest = "init", !.param = sandbox.text,
                                  !.step = @ + 1]
    /\ UNCHANGED <<queue, processing, workerVars, libVars, clientVars,
                   allowed_mcp_url, requests, reply>>

\* The guest entry execute_agent of guest/src/lib.rs invoked with any
\* mcp_server_url.
CallEntry(url) ==
    /\ AtStep("call")
    /\ sandbox' = [sandbox EXCEPT !.guest = "init", !.param = url,
                                  !.step = @ + 1]
    /\ UNCHANGED <<queue, processing, workerVars, libVars, clientVars,
                   allowed_mcp_url, requests, reply>>

\* sandbox.call on a guest that calls the host functions as it likes.
CallAnyGuest ==
    /\ AtStep("call")
    /\ sandbox' = [sandbox EXCEPT !.guest = "any", !.step = @ + 1]
    /\ UNCHANGED <<queue, processing, workerVars, libVars, clientVars,
                   allowed_mcp_url, requests, reply>>

\* The guest is about to call the host function fn.
GuestCalls(fn) ==
    /\ sandbox.state = "ready"
    /\ \/ sandbox.guest = "any"
       \/ fn = "InitializeMCPConnection" /\ sandbox.guest = "init"
       \/ fn = "GetMCPTools" /\ sandbox.guest = "tools"

\* The guest after the host function returned res.
GuestAfter(res) ==
    CASE sandbox.guest = "init"  -> GuestAfterInit(res)
      [] sandbox.guest = "tools" -> GuestAfterTools(res)
      [] OTHER                   -> sandbox.guest

\* The answer of the host function to the guest.
Reply(fn, url, tool, status, res) ==
    [fn |-> fn, url |-> url, tool |-> tool, status |-> status, res |-> res,
     read |-> allowed_mcp_url]

\* The guest entry returns or the sandbox faults: execute returns, the
\* sandbox is dropped.
AgentReturn ==
    /\ sandbox.guest # "none"
    /\ \E r \in {"ok", "err"} :
          /\ sandbox.guest = "ok" => r = "ok"
          /\ sandbox.guest \in {"init", "tools", "err"} => r = "err"
          /\ sandbox' = [NoSandbox EXCEPT !.result = r]
    /\ UNCHANGED <<queue, processing, workerVars, libVars, clientVars,
                   allowed_mcp_url, requests, reply>>

\* Host function InitializeMCPConnection(url_str).
InitializeMCPConnection(url_str) ==
    /\ GuestCalls("InitializeMCPConnection")
    /\ sandbox.guest = "init" => url_str = sandbox.param
    /\ LET res == IF ParseFails(url_str) THEN "Invalid URL"
                  ELSE IF allowed_mcp_url = NoUrl
                       THEN "Network access not allowed"
                  ELSE IF \/ Parse(url_str).host # allowed_mcp_url.host
                          \/ Parse(url_str).port # allowed_mcp_url.port
                          \/ Parse(url_str).scheme # allowed_mcp_url.scheme
                       THEN "Unauthorized network access"
                  ELSE "Ok"
       IN  /\ reply' = Reply("InitializeMCPConnection", url_str, <<>>, 0, res)
           /\ sandbox' = [sandbox EXCEPT !.guest = GuestAfter(res),
                                         !.connected = @ \/ res = "Ok"]
    /\ UNCHANGED <<queue, processing, workerVars, libVars, clientVars,
                   allowed_mcp_url, requests>>

\* Host function GetMCPTools: GET <allowed>/tools; the body of whatever
\* answer arrives is returned.
GetMCPTools ==
    /\ GuestCalls("GetMCPTools")
    /\ IF allowed_mcp_url = NoUrl
       THEN /\ reply' = Reply("GetMCPTools", NoText, <<>>, 0,
                              "MCP server not configured")
            /\ sandbox' = [sandbox EXCEPT
                              !.guest = GuestAfter("MCP server not configured")]
            /\ UNCHANGED requests
       ELSE /\ requests' = requests \cup {Origin(Join(allowed_mcp_url, <<"/", "tools">>))}
            /\ \E status \in Statuses \cup {0} :
                  LET res == IF status = 0 THEN "HTTP request failed" ELSE "Ok"
                  IN  /\ reply' = Reply("GetMCPTools", NoText, <<>>, status, res)
                      /\ sandbox' = [sandbox EXCEPT !.guest = GuestAfter(res)]
    /\ UNCHANGED <<queue, processing, workerVars, libVars, clientVars,
                   allowed_mcp_url>>

\* Host function ExecuteMCPTool(tool_name, arguments_json): POST <allowed>/tools/<tool_name>.
ExecuteMCPTool(tool_name) ==
    /\ GuestCalls("ExecuteMCPTool")
    /\ IF allowed_mcp_url = NoUrl
       THEN /\ reply' = Reply("ExecuteMCPTool", NoText, tool_name, 0,
                              "MCP server not configured")
            /\ UNCHANGED requests
       ELSE IF JoinFails(allowed_mcp_url, ToolRef(tool_name))
       THEN /\ reply' = Reply("ExecuteMCPTool", NoText, tool_name, 0,
                              "URL join error")
            /\ UNCHANGED requests
       ELSE /\ requests' = requests \cup
                   {Origin(Join(allowed_mcp_url, ToolRef(tool_name)))}
            /\ \E status \in Statuses \cup {0} :
                  reply' = Reply("ExecuteMCPTool", NoText, tool_name, status,
                                 IF status = 0 THEN "HTTP request failed" ELSE "Ok")
    /\ UNCHANGED <<queue, processing, workerVars, libVars, clientVars,
                   allowed_mcp_url, sandbox>>

\* ------------------------------------- process_job, step 4 with its executor
\* job.mcp_connection_url of the jobs a producer enqueues: None (NoText) or
\* Some(string).
Overrides ==
    {NoText, Garbage,
     [scheme |-> "https", host |-> "evil", port |-> 0, path |-> ""]}

\* Instance.mcp_connection_url of the instances the allocator answers with.
LeasedUrls ==
    {Garbage, [scheme |-> "http", host |-> "mcp", port |-> 0, path |-> ""]}

\* URLs a guest entry is invoked with.
EntryUrls ==
    {Garbage,
     [scheme |-> "http", host |-> "mcp", port |-> 80, path |-> "/"],
     [scheme |-> "http", host |-> "mcp", port |-> 8080, path |-> ""],
     [scheme |-> "https", host |-> "mcp", port |-> 0, path |-> ""],
     [scheme |-> "https", host |-> "evil", port |-> 443, path |-> ""]}

\* A variant of McpUrlFor that always takes the endpoint of the instance.
McpUrlLeasedOnly(override, leased) == leased

\* process_job: job.mcp_connection_url.as_deref().or(Some(&instance.mcp_connection_url)).
McpUrlFor(override, leased) == IF override # NoText THEN override ELSE leased

\* A variant of AfterExecute that goes on whatever execute returned.
AfterExecuteIgnoring(result) == "next"

\* process_job after execute: `?` on its Err, then the next step.
AfterExecute(result) == IF result = "ok" THEN "next" ELSE "leave"

\* Step 4 begins: agent_executor.execute(path, prompt, mcp_url) is called.
ExecuteBegin(w) ==
    /\ pc[w] = "execute"
    /\ sandbox.step = 0 /\ sandbox.state = "none"
    /\ \E override \in Overrides, leased \in LeasedUrls :
          sandbox' = [NoSandbox EXCEPT !.text = McpUrlFor(override, leased),
                                       !.step = 1,
                                       !.override = override,
                                       !.leased = leased]
    /\ requests' = {}
    /\ reply' = NoReply
    /\ pc' = [pc EXCEPT ![w] = "executing"]
    /\ UNCHANGED <<queue, processing, enqueued, acked, job, guard, log,
                   dropThreads, dirs, calls, retry, clientVars, libVars,
                   allowed_mcp_url>>

\* Step 4 ends: execute has returned; Err leaves process_job through `?`.
ExecuteEnd(w) ==
    /\ pc[w] = "executing"
    /\ sandbox.step = 0 /\ sandbox.result # "none"
    /\ IF AfterExecute(sandbox.result) = "next"
       THEN Advance(w, "execute", <<Ev("execute", sandbox.result)>>, guard[w])
       ELSE Leave(w, <<Ev("execute", "err")>>, "err", guard[w])
    /\ sandbox' = NoSandbox
    /\ UNCHANGED <<queue, processing, enqueued, acked, job, dirs, calls, retry,
                   clientVars, libVars, allowed_mcp_url, requests, reply>>

\* ------------------------------------------------------------ specifications
WorkerStep(w) ==
    \/ Start(w) \/ RecoverStep(w) \/ Dequeue(w) \/ LoopBack(w)
    \/ Borrow(w) \/ Clone(w) \/ Checkout(w) \/ Execute(w) \/ Publish(w)
    \/ Cleanup(w) \/ ReturnInstance(w) \/ DropThread(w)
    \/ Ack(w) \/ Nack(w) \/ NackPush(w)

NextNoCrash ==
    \/ \E j \in Jobs : Enqueue(j)
    \/ \E w \in Workers : WorkerStep(w)

Next ==
    \/ \E j \in Jobs : Enqueue(j)
    \/ \E w \in Workers : WorkerStep(w)
    \/ \E w \in Workers : Crash(w)

Spec == Init /\ [][Next]_vars

\* The same system when no process ever crashes.
SpecNoCrash == Init /\ [][NextNoCrash]_vars

\* One worker process alone on the queue (the others are never started); it
\* may crash and be started again.
NextSingle ==
    \/ \E j \in Jobs : Enqueue(j)
    \/ WorkerStep(1)
    \/ Crash(1)

SpecSingle == Init /\ [][NextSingle]_vars

\* One worker process whose calls to the broker may fail, on a queue that may
\* hold a record that is no Job; the process may crash and be started again.
NextLoop ==
    \/ \E j \in Jobs : Enqueue(j)
    \/ PushPoison
    \/ WorkerStep(1)
    \/ RecoverFails(1) \/ DequeueFails(1)
    \/ AckFails(1) \/ NackFails(1) \/ NackPushFails(1)
    \/ Crash(1)

SpecLoop == Init /\ [][NextLoop]_vars

\* The same, when the process goes on as long as it is alive.
SpecLoopFair == SpecLoop /\ WF_vars(LoopBack(1))

\* One caller that enqueues any Job on empty lists, dequeues it and acks it.
NextCodec ==
    \/ CodecEnqueue
    \/ CodecDequeue
    \/ CodecAck

SpecCodec == Init /\ [][NextCodec]_vars

\* One clone on which files are edited, staged and committed in any order.
NextGit ==
    \/ \E t \in Trees : EditWorkTree(t)
    \/ StageAll
    \/ Commit

SpecGit == Init /\ [][NextGit]_vars

\* The workers sharing one queue and one work_dir, none crashing, with the
\* two halves of step 2 as separate steps.
WorkspaceStep(w) ==
    \/ Start(w) \/ RecoverStep(w) \/ Dequeue(w) \/ LoopBack(w)
    \/ Borrow(w) \/ RemoveExisting(w) \/ CloneRepo(w)
    \/ Checkout(w) \/ Execute(w) \/ Publish(w)
    \/ Cleanup(w) \/ ReturnInstance(w) \/ DropThread(w)
    \/ Ack(w) \/ Nack(w) \/ NackPush(w)

NextWorkspace ==
    \/ \E j \in Jobs : Enqueue(j)
    \/ \E w \in Workers : WorkspaceStep(w)

SpecWorkspace == Init /\ [][NextWorkspace]_vars

\* One worker alone on the queue, alive for ever and never crashing.
NextSerial ==
    \/ \E j \in Jobs : Enqueue(j)
    \/ WorkerStep(1)

SpecSerialFair == Init /\ [][NextSerial]_vars /\ WF_vars(WorkerStep(1))

\* One consumer that dequeues and acks what producers of any style enqueue.
NextForeign ==
    \/ ForeignEnqueue
    \/ CodecDequeue
    \/ CodecAck

SpecForeign == Init /\ [][NextForeign]_vars

\* One client calling the methods of ReliableQueue in any order.
NextClient ==
    \/ \E j \in Jobs : ClientEnqueue(j)
    \/ ClientDequeue
    \/ \E j \in Jobs : ClientAck(j)
    \/ \E j \in Jobs : ClientNack(j)
    \/ ClientNackPush
    \/ ClientRecoverStep
    \/ ClientPeek

SpecClient == Init /\ [][NextClient]_vars

\* The same client, when a call it has started runs to its end.
SpecClientFair ==
    /\ Init /\ [][NextClient]_vars
    /\ WF_vars(last.op = "recover_loop" /\ ClientRecoverStep)
    /\ WF_vars(ClientNackPush)

\* One worker process that never crashes, with step 4 of process_job done by
\* the AgentExecutor and the guest of guest/src/lib.rs.
PipelineStep(w) ==
    \/ Start(w) \/ RecoverStep(w) \/ Dequeue(w) \/ LoopBack(w)
    \/ Borrow(w) \/ Clone(w) \/ Checkout(w)
    \/ ExecuteBegin(w)
    \/ WriteAllowList \/ NewSandbox \/ RegisterHostFunctions \/ Evolve
    \/ InitializeMCPConnection(sandbox.param)
    \/ GetMCPTools
    \/ AgentReturn
    \/ ExecuteEnd(w)
    \/ Publish(w) \/ Cleanup(w) \/ ReturnInstance(w) \/ DropThread(w)
    \/ Ack(w) \/ Nack(w) \/ NackPush(w)

NextPipeline ==
    \/ \E j \in Jobs : Enqueue(j)
    \/ PipelineStep(1)
    \/ CallGuest

SpecPipeline == Init /\ [][NextPipeline]_vars

\* The same worker when the guest entry is invoked with any URL.
NextGuest ==
    \/ \E j \in Jobs : Enqueue(j)
    \/ PipelineStep(1)
    \/ \E url \in EntryUrls : CallEntry(url)

SpecGuest == Init /\ [][NextGuest]_vars

\* One AgentExecutor running one execute after the other, and the guest of
\* the current sandbox calling the host functions in any order.
NextAgent ==
    \/ \E text \in UrlTexts \cup {NoText} : AgentExecute(text)
    \/ WriteAllowList \/ NewSandbox \/ RegisterHostFunctions \/ Evolve
    \/ CallAnyGuest
    \/ AgentReturn
    \/ \E url_str \in UrlTexts : InitializeMCPConnection(url_str)
    \/ GetMCPTools
    \/ \E tool_name \in ToolNames : ExecuteMCPTool(tool_name)

SpecAgent == Init /\ [][NextAgent]_vars

\* ------------------------------------------------------------------ claims
Rec(j) == Serialize(j)

\* The worker has dequeued a job and has neither ACKed nor NACKed it yet.
Holding(w) ==
    pc[w] \in {"borrow", "clone", "checkout", "execute", "publish", "cleanup",
               "return", "ack", "nack"}

\* process_job has returned and process_next_job is about to call ack or nack.
Returned(w) == pc[w] \in {"ack", "nack"}

\* C1: no enqueued job is ever lost: every enqueued job that has not been
\* ACKed is in pending or in in-flight, or a live worker is between the two
\* commands of nack and is about to push it back.
NoJobLost ==
    \A j \in enqueued \ acked :
        \/ Count(queue, Rec(j)) + Count(processing, Rec(j)) >= 1
        \/ \E w \in Workers : pc[w] = "nack_push" /\ job[w] = j

\* C2: at every instant the multiset union of pending and in-flight equals the
\* enqueued records minus the ACKed ones.
UnionIsEnqueuedMinusAcked ==
    \A j \in Jobs :
        Count(queue, Rec(j)) + Count(processing, Rec(j))
            = IF j \in enqueued /\ j \notin acked THEN 1 ELSE 0

\* C3: no two workers process the same job record at the same time.
NoTwoWorkersSameJob ==
    \A w1, w2 \in Workers :
        (w1 # w2 /\ Holding(w1) /\ Holding(w2)) => job[w1] # job[w2]

\* Number of calls of allocator.return_instance made or handed to a thread.
ReturnCalls(l) == Times(l, {"return", "drop_return"})

Succeeded(l) ==
    /\ Has(l, "execute", "ok")
    /\ \/ Has(l, "has_changes", "clean")
       \/ /\ Has(l, "has_changes", "changed") /\ Has(l, "stage", "ok")
          /\ Has(l, "commit", "ok") /\ Has(l, "push", "ok")

AnyErr(l) == \E i \in 1..Len(l) : l[i][2] = "err"

\* C5: the ACK is issued only after the agent succeeded and the workspace was
\* clean or pushed; every attempt in which a step failed goes to NACK.
AckOnlyAfterSuccess ==
    \A w \in Workers :
        /\ pc[w] = "ack" => Succeeded(log[w])
        /\ (Returned(w) /\ AnyErr(log[w])) => pc[w] = "nack"

\* C5 witness: an ACK is about to be issued after a successful push.
AckAfterPush ==
    \E w \in Workers : pc[w] = "ack" /\ Has(log[w], "push", "ok")

\* C6: for every job dequeue returned, exactly one of ack and nack is called,
\* once.
ExactlyOneDecision ==
    \A w \in Workers :
        /\ Len(calls[w]) <= 1
        /\ (pc[w] = "done" /\ job[w] # None) => Len(calls[w]) = 1

\* C6 witness: an attempt has ended with its one nack call.
AttemptEndedWithNack ==
    \E w \in Workers : pc[w] = "done" /\ job[w] # None /\ calls[w] = <<"nack">>

\* The call of nack by worker w returns.
NackReturns(w) ==
    /\ pc[w] \in {"nack", "nack_push"}
    /\ pc'[w] = AfterDecision("nack")

\* C7: after the nack the worker issues for a failed attempt, the job is back
\* in pending and no longer in in-flight.
NackPutsJobBack ==
    [][\A w \in Workers :
          NackReturns(w) =>
              /\ Count(queue', Rec(job[w])) = 1
              /\ Count(processing', Rec(job[w])) = 0]_vars

WorkspaceRemovedAtEnd ==
    \A w \in Workers :
        (Returned(w) /\ Did(log[w], "clone")) => job[w] \notin dirs

\* C10 as stated: the job nack re-enqueued is the very next job dequeue
\* returns: no other job is dequeued before it.
NackedJobIsNext == ~retry.overtaken

\* C10 amended: the job nack re-enqueued sits at the head of pending, behind
\* every job that was waiting in pending when it was re-enqueued.
NackedJobBehindWaiting ==
    retry.job # None =>
        /\ Count(queue, Rec(retry.job)) = 1
        /\ \A k \in retry.waiting :
              FirstIndex(queue, Rec(k)) > FirstIndex(queue, Rec(retry.job))

\* C10 witness: a job that was waiting was dequeued after the nack, and the
\* re-enqueued job is still waiting.
NackedJobOvertaken ==
    retry.job # None /\ retry.overtaken /\ Count(queue, Rec(retry.job)) = 1

\* The k records a run of dequeues took from the tail of q, in their order
\* in q, followed by the records it left.
Rotated(q, k) ==
    SubSeq(q, Len(q) - k + 1, Len(q)) \o SubSeq(q, 1, Len(q) - k)

\* A second recover right after a recover returns 0 and changes nothing.
RecoverIdempotent ==
    (last.op = "recover" /\ last.prev = "recover") =>
        /\ last.ret = 0
        /\ queue = last.q0 /\ processing = last.p0

\* C11 as stated: recover is idempotent, and after k dequeues from an empty
\* in-flight with no other call in between, recover restores pending to
\* exactly the sequence it was before those dequeues.
RecoverIsLeftInverse ==
    /\ RecoverIdempotent
    /\ (last.op = "recover" /\ streak.p0 = <<>>) => queue = streak.q0

\* C11 amended: recover is idempotent, and after k dequeues it puts the k
\* dequeued records, in their former relative order, at the head of pending
\* in front of the records that were left: pending is the former sequence
\* rotated, and is the former sequence itself when the dequeues took all of it.
RecoverRotatesPending ==
    /\ RecoverIdempotent
    /\ (last.op = "recover" /\ streak.p0 = <<>>) =>
           /\ processing = <<>>
           /\ queue = Rotated(streak.q0, streak.k)
           /\ streak.k \in {0, Len(streak.q0)} => queue = streak.q0

\* C11 witness: recover returned after dequeues that left records in pending,
\* and pending is no longer in its former order.
RecoverAfterPartialDrain ==
    /\ last.op = "recover" /\ streak.p0 = <<>>
    /\ streak.k > 0 /\ streak.k < Len(streak.q0)
    /\ queue # streak.q0

\* What holds of a recover call that has returned, and of one in its loop.
RecoverMovesAllInv ==
    /\ last.op = "recover" =>
           /\ processing = <<>>
           /\ last.ret = Len(last.p0)
           /\ Len(queue) = Len(last.q0) + Len(last.p0)
           /\ \A j \in Jobs : Count(queue, Rec(j))
                                = Count(last.q0, Rec(j)) + Count(last.p0, Rec(j))
    /\ last.op = "recover_loop" => last.ret + Len(processing) = Len(last.p0)

\* C12: with no other client on the queue, recover terminates, returns the
\* number of records in-flight held when it started, leaves in-flight empty
\* and has moved every one of them to pending.
RecoverMovesAll ==
    /\ []RecoverMovesAllInv
    /\ (last.op = "recover_loop") ~> (last.op = "recover")

\* C12 witness: recover returned after moving three records.
RecoveredThree ==
    last.op = "recover" /\ last.ret = 3 /\ Len(last.p0) = 3 /\ Len(queue) = 3

\* C13 as stated: every record is in at most one of pending and in-flight.
EachRecordInOneList ==
    \A j \in Jobs : ~(Count(queue, Rec(j)) > 0 /\ Count(processing, Rec(j)) > 0)

\* C13 amended: pending and in-flight together hold at most as many copies of
\* a record as were enqueued, so a record enqueued once is in at most one of
\* them; a record enqueued twice may be in both at once.
CopiesInListsAtMostEnqueued ==
    \A j \in Jobs :
        Count(queue, Rec(j)) + Count(processing, Rec(j)) <= Count(order.enq, Rec(j))

\* C13 witness: a record enqueued twice is in pending and in in-flight.
DuplicateInBothLists ==
    \E j \in Jobs :
        /\ Count(order.enq, Rec(j)) = 2
        /\ Count(queue, Rec(j)) = 1 /\ Count(processing, Rec(j)) = 1

\* C14: ack removes exactly one record equal to the job's serialization from
\* in-flight when there is one, leaving the other copies and pending as they
\* were; when there is none it returns Ok and changes nothing.
AckRemovesOne ==
    last.op = "ack" =>
        /\ queue = last.q0
        /\ IF Count(last.p0, Rec(last.arg)) >= 1
           THEN /\ last.ret = 1
                /\ Len(processing) = Len(last.p0) - 1
                /\ \A j \in Jobs :
                      Count(processing, Rec(j))
                        = Count(last.p0, Rec(j)) - (IF j = last.arg THEN 1 ELSE 0)
           ELSE last.ret = 0 /\ processing = last.p0

\* C14 witness: an ack of a job with two equal records in in-flight left one.
AckLeftACopy ==
    /\ last.op = "ack"
    /\ Count(last.p0, Rec(last.arg)) = 2 /\ Count(processing, Rec(last.arg)) = 1

\* C15: nack of a job with no matching record in in-flight returns Ok and
\* leaves pending and in-flight unchanged.
NackWithoutMatchIsNoOp ==
    (last.op = "nack" /\ Count(last.p0, Rec(last.arg)) = 0) =>
        /\ last.ret = 0
        /\ queue = last.q0 /\ processing = last.p0

\* C15 witness: nack returned for an enqueued job that in-flight did not hold.
NackOfAbsentJob ==
    /\ last.op = "nack" /\ last.ret = 0
    /\ Count(order.enq, Rec(last.arg)) > 0
    /\ Count(last.p0, Rec(last.arg)) = 0

\* C16: a dequeue on a non-empty pending moves its tail to the head of
\* in-flight in one step and returns it; on an empty pending it returns
\* nothing and changes neither list.
DequeueMovesTail ==
    last.op = "dequeue" =>
        IF last.q0 # <<>>
        THEN /\ queue = SubSeq(last.q0, 1, Len(last.q0) - 1)
             /\ processing = <<last.q0[Len(last.q0)]>> \o last.p0
             /\ last.ret = last.q0[Len(last.q0)][2]
        ELSE last.ret = None /\ queue = last.q0 /\ processing = last.p0

\* C16 witness: a dequeue took one of two pending records while in-flight
\* already held one.
DequeueWithOthersAround ==
    /\ last.op = "dequeue" /\ Len(last.q0) >= 2 /\ Len(last.p0) >= 1
    /\ last.q0[1] # last.q0[Len(last.q0)]

\* C17: absent nack and recover, records are dequeued in the order they were
\* enqueued (whichever producers the enqueues came from), and every enqueue
\* adds exactly one record to pending.
DequeueInEnqueueOrder ==
    /\ ~order.disturbed =>
           /\ Len(order.deq) <= Len(order.enq)
           /\ order.deq = SubSeq(order.enq, 1, Len(order.deq))
    /\ last.op = "enqueue" =>
           /\ Len(queue) = Len(last.q0) + 1
           /\ Count(queue, Rec(last.arg)) = Count(last.q0, Rec(last.arg)) + 1
           /\ processing = last.p0

\* C17 witness: two different records were dequeued, with no nack or recover.
TwoDequeuedInOrder ==
    /\ ~order.disturbed /\ Len(order.deq) >= 2
    /\ order.deq[1] # order.deq[2]

\* C18: peek changes neither list and returns the tail of pending (nothing
\* when pending is empty), the job a dequeue made right after returns.
PeekReadsTail ==
    /\ last.op = "peek" =>
           /\ queue = last.q0 /\ processing = last.p0
           /\ last.ret = IF last.q0 = <<>> THEN None
                         ELSE last.q0[Len(last.q0)][2]
    /\ (last.op = "dequeue" /\ last.prev = "peek") => last.ret = last.prevret

\* C18 witness: a dequeue right after a peek, on a pending of two different records.
DequeueAfterPeek ==
    /\ last.op = "dequeue" /\ last.prev = "peek" /\ last.ret # None
    /\ Len(last.q0) >= 2 /\ last.q0[1] # last.q0[Len(last.q0)]

\* The (scheme, host, port) a URL string designates, the port being the
\* scheme's default when none is written.
Triple(text) ==
    <<text.scheme, text.host,
      IF text.port = 0 THEN DefaultPort(text.scheme) ELSE text.port>>

\* C19: InitializeMCPConnection(url) succeeds iff the triple of url equals
\* that of the allow-listed endpoint, whatever the spelling of either; a
\* different triple fails with "Unauthorized network access", an empty
\* allow-list with "Network access not allowed".
InitializeAcceptsSameTriple ==
    (/\ sandbox.state = "ready"
     /\ reply.fn = "InitializeMCPConnection"
     /\ ~ParseFails(reply.url)) =>
        reply.res = IF sandbox.text = NoText THEN "Network access not allowed"
                    ELSE IF Triple(reply.url) = Triple(sandbox.text) THEN "Ok"
                    ELSE "Unauthorized network access"

\* C19 witness: a URL spelled with the default port and a trailing slash is
\* accepted against an endpoint spelled without them.
VariantAccepted ==
    /\ sandbox.state = "ready"
    /\ reply.fn = "InitializeMCPConnection" /\ reply.res = "Ok"
    /\ reply.url.port # 0 /\ sandbox.text.port = 0
    /\ reply.url.path = "/" /\ sandbox.text.path = ""

\* C20: every request the host callbacks of a sandbox send goes to the
\* (scheme, host, port) of the endpoint put in the allow-list when the sandbox
\* was set up, whatever the guest passed to the callbacks.
RequestsGoToAllowed ==
    sandbox.state = "ready" =>
        \A r \in requests :
            /\ sandbox.text # NoText
            /\ <<r.scheme, r.host,
                 IF r.port = 0 THEN DefaultPort(r.scheme) ELSE r.port>>
                  = Triple(sandbox.text)

\* C20 witness: a request was sent for a tool name that starts like a
\* reference to another host.
ToolNameLikeHostRequested ==
    /\ sandbox.state = "ready" /\ requests # {}
    /\ reply.fn = "ExecuteMCPTool" /\ reply.res = "Ok"
    /\ Len(reply.tool) = 3
    /\ reply.tool[1] = "/" /\ reply.tool[2] = "/" /\ reply.tool[3] = "evil"
    /\ sandbox.text.host = "mcp"

\* C22: GetMCPTools hands a response body to the guest only when the endpoint
\* answered with a 2xx status; a transport failure or any other status is an
\* error for the guest.
GetToolsFailsOnBadStatus ==
    (reply.fn = "GetMCPTools" /\ reply.res = "Ok") =>
        (reply.status >= 200 /\ reply.status < 300)

\* C26: while the sandbox of an execution exists the allow-list has been
\* written exactly once in that execution, before the sandbox was created, it
\* still holds the value written then, and every host function called in the
\* execution read that value.
AllowListFixedForSandbox ==
    sandbox.state # "none" =>
        /\ sandbox.writes = 1
        /\ sandbox.allowed0 = (IF sandbox.text = NoText THEN NoUrl
                               ELSE Parse(sandbox.text))
        /\ allowed_mcp_url = sandbox.allowed0
        /\ reply.fn # "none" => reply.read = sandbox.allowed0

\* C26 witness: a host function sent a request for the guest, reading the
\* endpoint written before the sandbox was created.
HostFunctionReadAllowList ==
    /\ sandbox.state = "ready" /\ sandbox.writes = 1
    /\ reply.fn = "ExecuteMCPTool" /\ reply.res = "Ok"
    /\ reply.read # NoUrl /\ reply.read = sandbox.allowed0

\* What holds of a sandbox in each of its states.
LifecycleInv ==
    /\ sandbox.state \in {"none", "uninitialized", "registered", "ready"}
    /\ sandbox.state \in {"none", "uninitialized"} => sandbox.registered = {}
    /\ sandbox.state \in {"registered", "ready"} =>
           sandbox.registered = HostFunctions
    /\ sandbox.guest # "none" => sandbox.state = "ready"
    /\ sandbox.result # "none" => sandbox.state = "none"

\* One step of a sandbox: forward by one state, or dropped; the guest entry is
\* entered once.
LifecycleStep ==
    /\ \/ sandbox'.state = sandbox.state
       \/ sandbox.state = "none" /\ sandbox'.state = "uninitialized"
       \/ sandbox.state = "uninitialized" /\ sandbox'.state = "registered"
       \/ sandbox.state = "registered" /\ sandbox'.state = "ready"
       \/ sandbox'.state = "none"
    /\ sandbox.state = "none" /\ sandbox'.state # "none" => sandbox'.guest = "none"
    /\ sandbox.guest # "none" /\ sandbox'.guest # sandbox.guest =>
           sandbox'.guest \notin {"init", "any"}

\* C27: a sandbox is created uninitialized in each execution, gets exactly the
\* three host functions registered, then becomes ready, and only a ready
\* sandbox runs the guest entry, once; a failing step drops it; it never goes
\* back to an earlier state.
SandboxLifecycle == []LifecycleInv /\ [][LifecycleStep]_vars

\* C27 witness: the guest runs in a ready sandbox with the three host
\* functions, and has called one of them.
GuestRunsInReadySandbox ==
    /\ sandbox.state = "ready" /\ sandbox.guest # "none"
    /\ Cardinality(sandbox.registered) = 3
    /\ reply.fn = "GetMCPTools"

\* C28: the URL execute is given, the endpoint in the allow-list and the URL
\* the guest entry receives are the job's override when the job has one and
\* the endpoint of the leased instance otherwise; the allow-list is not empty
\* while the guest runs.
OverrideElseLeased ==
    LET expected == IF sandbox.override # NoText THEN sandbox.override
                    ELSE sandbox.leased
    IN  /\ sandbox.step > 0 => sandbox.text = expected /\ expected # NoText
        /\ sandbox.guest # "none" =>
              /\ allowed_mcp_url # NoUrl
              /\ allowed_mcp_url = Parse(expected)
              /\ sandbox.param = expected

\* C28 witness: the guest runs for a job whose override names another host
\* than the leased instance.
GuestRunsWithOverride ==
    /\ pc[1] = "executing" /\ sandbox.guest = "tools"
    /\ sandbox.override # NoText /\ sandbox.leased # Garbage
    /\ sandbox.override.host # sandbox.leased.host
    /\ allowed_mcp_url.host = sandbox.override.host

\* The last host function call was InitializeMCPConnection with a URL whose
\* triple differs from that of the allow-listed endpoint.
Mismatch ==
    /\ reply.fn = "InitializeMCPConnection"
    /\ ~ParseFails(reply.url)
    /\ reply.read # NoUrl
    /\ Triple(reply.url) # <<reply.read.scheme, reply.read.host,
                             IF reply.read.port = 0
                             THEN DefaultPort(reply.read.scheme)
                             ELSE reply.read.port>>

\* C21: after the guest called InitializeMCPConnection with a URL of another
\* triple than the allow-listed one, the call has returned an error, the
\* guest entry has failed without a request for the tools, execute reports a
\* failure, the attempt goes neither to the commit and push nor to the ack,
\* and it ends with a nack.
MismatchEndsInNack ==
    Mismatch =>
        /\ reply.res = "Unauthorized network access"
        /\ requests = {}
        /\ sandbox.guest \in {"err", "none"}
        /\ sandbox.result # "ok"
        /\ pc[1] \notin {"publish", "cleanup", "return", "ack"}
        /\ ~Did(log[1], "commit") /\ ~Did(log[1], "push")
        /\ (pc[1] = "done" /\ job[1] # None) => calls[1] = <<"nack">>

\* C21 witness: an attempt whose guest was refused has ended with a nack.
RefusedGuestNacked ==
    /\ Mismatch
    /\ pc[1] = "done" /\ job[1] # None /\ calls[1] = <<"nack">>
    /\ reply.url.host = "evil"

\* Positions of worker 1 inside the main loop of run.
LoopPcs ==
    {"dequeue", "borrow", "clone", "checkout", "execute", "publish", "cleanup",
     "return", "ack", "nack", "nack_push", "done"}

\* A step of worker 1 inside its main loop (it neither starts nor dies).
LoopStepOfWorker == pc[1] \in LoopPcs /\ pc'[1] \in LoopPcs

\* What a step does with records that do not deserialize.
PoisonStep ==
    /\ LoopStepOfWorker =>
          /\ Count(processing', Poison) >= Count(processing, Poison)
          /\ Count(queue', Poison) > Count(queue, Poison) => pc' = pc
    /\ (/\ pc[1] = "dequeue" /\ queue # <<>> /\ Tail1(queue) = Poison
        /\ queue' = RPop(queue)) =>
          /\ processing' = LPush(processing, Poison)
          /\ pc'[1] = "done" /\ job'[1] = None
          /\ calls'[1] = Append(calls[1], "dequeue_err")
    /\ (pc[1] = "done" /\ pc'[1] # "done") => pc'[1] \in {"dequeue", "start"}

\* C23: a dequeue that gets a record that does not deserialize returns an
\* error with the record moved to in-flight; no step of the worker's loop
\* removes such a record from in-flight or puts it in pending again; after
\* the error the loop goes on to the next dequeue.
PoisonStaysInFlight == [][PoisonStep]_vars

\* C23 witness: with such a record in in-flight the worker has dequeued a job
\* that was behind it.
JobTakenAfterPoison ==
    /\ Count(processing, Poison) = 1 /\ Count(queue, Poison) = 0
    /\ pc[1] = "borrow" /\ job[1] # None

\* C24: recover is entered only from the start of run, is the first thing
\* run does, has drained in-flight when the first dequeue follows it, and no
\* step inside the main loop moves a record from in-flight to pending.
RecoverOnlyAtStartup ==
    [][/\ (pc'[1] = "recover" /\ pc[1] # "recover") => pc[1] = "start"
       /\ (pc[1] = "start" /\ pc'[1] # "start") => pc'[1] = "recover"
       /\ (pc[1] # "dequeue" /\ pc'[1] = "dequeue") =>
              \/ pc[1] = "recover" /\ processing = <<>>
              \/ pc[1] = "done"
       /\ LoopStepOfWorker =>
              ~(Len(processing') < Len(processing) /\ Len(queue') > Len(queue))
      ]_vars

\* C24 witness: the worker is at a dequeue after an iteration that
\* re-enqueued a job, with that job waiting in pending.
DequeueAgainAfterNack ==
    /\ pc[1] = "dequeue" /\ retry.job # None
    /\ Count(queue, Serialize(retry.job)) = 1 /\ processing = <<>>

\* Where each call of an iteration leads, whatever it returns.
IterationStep ==
    /\ pc[1] \in LoopPcs => pc'[1] \in LoopPcs \cup {"start"}
    /\ (pc[1] = "dequeue" /\ pc'[1] # pc[1]) => pc'[1] \in {"borrow", "done", "start"}
    /\ (pc[1] = "ack" /\ pc'[1] # pc[1]) => pc'[1] \in {"done", "start"}
    /\ (pc[1] = "nack" /\ pc'[1] # pc[1]) => pc'[1] \in {"nack_push", "done", "start"}
    /\ (pc[1] = "nack_push" /\ pc'[1] # pc[1]) => pc'[1] \in {"done", "start"}
    /\ (pc[1] = "done" /\ pc'[1] # pc[1]) => pc'[1] \in {"dequeue", "start"}

\* C25: once in the main loop the worker leaves it only when the process
\* dies; every end of an iteration (empty dequeue, failed dequeue, record that
\* does not deserialize, failed job, failed ack or nack) is followed by the next
\* dequeue.
LoopNeverEnds ==
    /\ [][IterationStep]_vars
    /\ (pc[1] = "done") ~> (pc[1] \in {"dequeue", "start"})

\* C25 witness: an iteration has ended with a failed ack.
IterationEndedByFailedAck ==
    /\ pc[1] = "done" /\ job[1] # None
    /\ calls[1] = <<"ack_err">>

\* C29: the Job dequeue returns after enqueue(job) equals job in each of id,
\* repo_url, branch, prompt and mcp_connection_url, whatever characters the
\* strings hold and whether the URL is present or not; dequeue does not fail.
RoundTrip ==
    codec.ret \in {"ok", "err"} =>
        /\ codec.ret = "ok"
        /\ codec.out.id = codec.job.id
        /\ codec.out.repo_url = codec.job.repo_url
        /\ codec.out.branch = codec.job.branch
        /\ codec.out.prompt = codec.job.prompt
        /\ codec.out.mcp_connection_url = codec.job.mcp_connection_url

\* C29 witness: a Job with a quote and a newline in its prompt, a backslash
\* in its id and an override URL holding a comma has come back.
SpecialCharsCameBack ==
    /\ codec.ret = "ok"
    /\ codec.job.prompt = <<QUOTE, LF>>
    /\ codec.job.id = <<BACKSLASH>>
    /\ codec.job.mcp_connection_url = << <<",">> >>
    /\ codec.out = codec.job

\* C30: no commit of the clone has the tree of its parent: commit fails, and
\* creates nothing, when the tree written from the index equals the tree of
\* HEAD.
NoEmptyCommit ==
    \A i \in 2..Len(repo.commits) : repo.commits[i] # repo.commits[i - 1]

\* C31: an attempt in which the push succeeded ends with an ACK: when
\* process_job has returned after a successful push, the call that follows is
\* ack, not nack.
PushedEndsWithAck ==
    \A w \in Workers :
        (Returned(w) /\ Has(log[w], "push", "ok")) => pc[w] = "ack"

\* Leases of worker w that no return call has been made for: the one its
\* guard holds and those left to threads that have not run yet.
Unreturned(w) == (IF guard[w] = "some" THEN 1 ELSE 0) + dropThreads[w]

\* C33: a worker never has more than one lease whose return call has not been
\* made: the instance of the previous job has been handed back to the
\* allocator before the next one is borrowed.
OneUnreturnedLease == \A w \in Workers : Unreturned(w) <= 1

\* C39: when the borrow failed, process_job has done nothing else: no guard,
\* no return call made or left to a thread, no clone, no agent, and the call
\* that follows is nack.
BorrowFailureOnlyNacks ==
    \A w \in Workers :
        Has(log[w], "borrow", "err") =>
            /\ log[w] = <<Ev("borrow", "err")>>
            /\ guard[w] = "none"
            /\ pc[w] = "nack"

\* C39 witness: the attempt of a dequeued job is about to be nacked after
\* nothing but a failed borrow.
NackAfterFailedBorrow ==
    /\ pc[1] = "nack" /\ job[1] # None /\ guard[1] = "none"
    /\ Len(log[1]) = 1 /\ log[1][1] = Ev("borrow", "err")

\* The steps of a job in the order of process_job.
StepOrder ==
    <<"borrow", "clone", "fetch", "checkout", "execute", "has_changes",
      "stage", "commit", "push", "cleanup", "return">>

\* The place of a step in StepOrder (0 for what is no step of the job).
Rank(op) ==
    IF \E k \in 1..Len(StepOrder) : StepOrder[k] = op
    THEN CHOOSE k \in 1..Len(StepOrder) : StepOrder[k] = op
    ELSE 0

\* The steps of the job in a log, without the removal of a leftover
\* directory and the return left to a thread.
StepsOf(l) == SelectSeq(l, LAMBDA e : Rank(e[1]) > 0)

\* C35: the steps of a job happen in the order borrow, clone, fetch,
\* checkout, agent, has_changes, stage, commit, push, none skipped up to the
\* agent, stage only after changes were found, each only after the one before
\* it succeeded; the agent runs with a held lease and a checked-out branch.
StepsInOrder ==
    \A w \in Workers :
        LET l == StepsOf(log[w])
        IN  /\ \A i \in 1..Len(l) - 1 :
                  /\ l[i][2] # "err"
                  /\ Rank(l[i][1]) < Rank(l[i + 1][1])
                  /\ Rank(l[i + 1][1]) <= Rank("push") =>
                        /\ Rank(l[i + 1][1]) = Rank(l[i][1]) + 1
                        /\ l[i][2] \in {"ok", "changed"}
            /\ l # <<>> => l[1][1] = "borrow"
            /\ Did(l, "execute") =>
                  Has(l, "borrow", "ok") /\ Has(l, "checkout", "ok")
            /\ pc[w] = "execute" => guard[w] = "some" /\ job[w] \in dirs
            /\ Did(l, "push") => Has(l, "commit", "ok")

\* C35 witness: a job went through every step, with changes pushed.
AllStepsDone ==
    /\ pc[1] = "ack"
    /\ Len(StepsOf(log[1])) = Len(StepOrder)
    /\ Has(log[1], "has_changes", "changed") /\ Has(log[1], "return", "ok")

\* C36: in an attempt whose agent execution failed nothing is looked up,
\* staged, committed or pushed afterwards, whether the workspace has changes
\* or not, and the call that follows is nack.
GuestFailureNacks ==
    Has(log[1], "execute", "err") =>
        /\ pc[1] = "nack"
        /\ ~Did(log[1], "has_changes") /\ ~Did(log[1], "stage")
        /\ ~Did(log[1], "commit") /\ ~Did(log[1], "push")
        /\ ~Did(log[1], "cleanup")

\* C36 witness: the guest entry returned an error after the endpoint did not
\* answer its request for the tools, and the attempt is about to be nacked.
NackAfterGuestError ==
    /\ pc[1] = "nack" /\ Has(log[1], "execute", "err")
    /\ reply.fn = "GetMCPTools" /\ reply.res = "HTTP request failed"

\* C37: whenever a worker is about to run the clone of its job, no directory
\* exists at the path of the job.
CloneFindsNoDirectory ==
    \A w \in Workers : pc[w] = "cloning" => job[w] \notin dirs

\* Worker w is in the part of process_job that uses the clone of its job.
Using(w) == pc[w] \in {"checkout", "execute", "publish", "cleanup"}

\* C38: two workers never use the directory of the same job id at the same
\* time, and the directory a worker is using is there: no other worker has
\* removed it.
WorkspaceExclusive ==
    \A w \in Workers :
        Using(w) =>
            /\ job[w] \in dirs
            /\ \A v \in Workers \ {w} : ~(Using(v) /\ job[v] = job[w])

\* C34: a job that waits in pending is eventually dequeued, however often
\* the processing of other jobs fails and they are re-enqueued.
WaitingJobIsDequeued ==
    \A j \in Jobs : (Count(queue, Rec(j)) > 0) ~> (Count(queue, Rec(j)) = 0)

\* C34 witness: a job was acked while a job re-enqueued by nack after a
\* failure waits in pending.
OtherJobDoneDespiteRetry ==
    /\ retry.job # None /\ retry.job \notin acked
    /\ Count(queue, Rec(retry.job)) = 1
    /\ acked # {} /\ pc[1] = "done" /\ calls[1] = <<"ack">>

\* C40: a sandbox whose host functions have sent a request is one in which
\* an InitializeMCPConnection call has succeeded before.
RequestOnlyAfterInit ==
    (sandbox.state = "ready" /\ requests # {}) => sandbox.connected

\* C32: after dequeue returned a Job and ack was called with it, the record
\* that was dequeued is no longer in in-flight, whatever producer wrote it.
AckRemovesDequeuedRecord ==
    codec.ret = "acked" => processing = <<>>

====
